---- MODULE Spec2Model ----
(***************************************************************************)
(* A model of the RustyTasks journal (src/src/tasks.rs, src/src/main.rs).  *)
(*                                                                         *)
(* The state is the journal file (whether it exists, and its content as a  *)
(* sequence of JSON tokens) together with a record of the last invocation  *)
(* of the program: the command, its arguments, the I/O step that failed    *)
(* (if any), the result, the file before the call and what was printed.    *)
(*                                                                         *)
(* Strings are tuples of one-character strings, so that the regular        *)
(* expression of Task::new, str::contains, trim and to_lowercase are       *)
(* computed character by character.                                        *)
(***************************************************************************)
EXTENDS Integers, Sequences, FiniteSets, TLC

VARIABLES file, last

vars == <<file, last>>

(***************************************************************************)
(* Bounds of the model.                                                    *)
(***************************************************************************)
\* The store never grows beyond MaxTasks tasks (add is disabled at the bound).
MaxTasks == 3

\* A failing write gets at most MaxCut tokens into the file.
MaxCut == 2

(***************************************************************************)
(* Option<T>: None is the empty tuple, Some(x) the one-element tuple.      *)
(***************************************************************************)
None == <<>>

Some(x) == <<x>>

IsSome(o) == o /= <<>>

Unwrap(o) == o[1]

(***************************************************************************)
(* String literals of the source.                                          *)
(***************************************************************************)
S_high == <<"h", "i", "g", "h">>

S_medium == <<"m", "e", "d", "i", "u", "m">>

S_low == <<"l", "o", "w">>

S_desc == <<"d", "e", "s", "c">>

S_asc == <<"a", "s", "c">>

\* Task::priority_order: the rank used by every comparison of two tasks.
priority_order(task) ==
    IF task.priority = Some(S_high) THEN 1
    ELSE IF task.priority = Some(S_medium) THEN 2
    ELSE IF task.priority = Some(S_low) THEN 3
    ELSE 4

\* impl Ord for Task: cmp compares the ranks only. -1 Less, 0 Equal, 1 Greater.
cmp(a, b) ==
    IF priority_order(a) < priority_order(b) THEN -1
    ELSE IF priority_order(a) > priority_order(b) THEN 1
    ELSE 0

\* One step of a sort that is not stable: x goes in front of its equals.
RECURSIVE InsertBeforeEqual(_, _, _)
InsertBeforeEqual(s, x, desc) ==
    IF s = <<>> THEN <<x>>
    ELSE LET c == IF desc THEN cmp(Head(s), x) ELSE cmp(x, Head(s))
         IN  IF c <= 0 THEN <<x>> \o s
             ELSE <<Head(s)>> \o InsertBeforeEqual(Tail(s), x, desc)

\* One step of a stable sort: x goes after every element it is not Less than.
\* desc = FALSE compares a.cmp(b), desc = TRUE compares b.cmp(a).
RECURSIVE InsertStable(_, _, _)
InsertStable(s, x, desc) ==
    IF s = <<>> THEN <<x>>
    ELSE LET c == IF desc THEN cmp(Head(s), x) ELSE cmp(x, Head(s))
         IN  IF c < 0 THEN <<x>> \o s
             ELSE <<Head(s)>> \o InsertStable(Tail(s), x, desc)

RECURSIVE StableSort(_, _)
StableSort(s, desc) ==
    IF s = <<>> THEN <<>>
    ELSE InsertStable(StableSort(SubSeq(s, 1, Len(s) - 1), desc), s[Len(s)], desc)

sort_noop(tasks) == tasks

\* Vec::sort(): stable, ascending by Ord (tasks.rs 114, 138).
sort(tasks) == StableSort(tasks, FALSE)

(***************************************************************************)
(* Time.  A DateTime<Utc> is [days, sod, nanos]: days since 1970-01-01,    *)
(* second of the day and nanosecond, i.e. the i64 timestamp                *)
(* days * 86400 + sod written in mixed radix, plus the sub-second part.    *)
(***************************************************************************)
IsLeap(y) == (y % 4 = 0 /\ y % 100 /= 0) \/ y % 400 = 0

DaysInMonth(y, m) ==
    IF m \in {4, 6, 9, 11} THEN 30
    ELSE IF m = 2 THEN (IF IsLeap(y) THEN 29 ELSE 28)
    ELSE 31

\* NaiveDate -> days since the epoch (proleptic Gregorian calendar).
DaysFromCivil(y, m, d) ==
    LET yy  == IF m <= 2 THEN y - 1 ELSE y
        era == yy \div 400
        yoe == yy - era * 400
        mp  == IF m > 2 THEN m - 3 ELSE m + 9
        doy == (153 * mp + 2) \div 5 + d - 1
        doe == yoe * 365 + yoe \div 4 - yoe \div 100 + doy
    IN  era * 146097 + doe - 719468

\* Days since the epoch -> [y, m, d]: Datelike::year, month, day of a date.
CivilFromDays(days) ==
    LET z   == days + 719468
        era == z \div 146097
        doe == z - era * 146097
        yoe == (doe - doe \div 1460 + doe \div 36524 - doe \div 146096) \div 365
        doy == doe - (365 * yoe + yoe \div 4 - yoe \div 100)
        mp  == (5 * doy + 2) \div 153
        m   == IF mp < 10 THEN mp + 3 ELSE mp - 9
    IN  [y |-> yoe + era * 400 + (IF m <= 2 THEN 1 ELSE 0),
         m |-> m,
         d |-> doy - (153 * mp + 2) \div 5 + 1]

\* Midnight of the date in a time zone two hours east of UTC.
and_hms_0_local_east(y, m, d) ==
    [days |-> DaysFromCivil(y, m, d) - 1, sod |-> 79200, nanos |-> 0]

\* naive_date.and_hms_opt(0, 0, 0) then Utc.from_utc_datetime (tasks.rs 38-39).
and_hms_0(y, m, d) == [days |-> DaysFromCivil(y, m, d), sod |-> 0, nanos |-> 0]

(***************************************************************************)
(* Characters.                                                             *)
(***************************************************************************)
AsciiDigits == {"0", "1", "2", "3", "4", "5", "6", "7", "8", "9"}

\* A decimal digit outside ASCII (ARABIC-INDIC DIGIT THREE), one character.
NonAsciiDigits == {"U+0663"}

DigitVal(c) ==
    CASE c = "0" -> 0 [] c = "1" -> 1 [] c = "2" -> 2 [] c = "3" -> 3
      [] c = "4" -> 4 [] c = "5" -> 5 [] c = "6" -> 6 [] c = "7" -> 7
      [] c = "8" -> 8 [] c = "9" -> 9

WhiteSpace == {" ", "\n", "\t", "\r"}

RECURSIVE TrimStart(_)
TrimStart(s) ==
    IF s /= <<>> /\ Head(s) \in WhiteSpace THEN TrimStart(Tail(s)) ELSE s

RECURSIVE TrimEnd(_)
TrimEnd(s) ==
    IF s /= <<>> /\ s[Len(s)] \in WhiteSpace
    THEN TrimEnd(SubSeq(s, 1, Len(s) - 1)) ELSE s

\* str::trim
trim(s) == TrimEnd(TrimStart(s))

UpperCase == <<"A", "B", "C", "D", "E", "F", "G", "H", "I", "J", "K", "L", "M",
               "N", "O", "P", "Q", "R", "S", "T", "U", "V", "W", "X", "Y", "Z">>

LowerCase == <<"a", "b", "c", "d", "e", "f", "g", "h", "i", "j", "k", "l", "m",
               "n", "o", "p", "q", "r", "s", "t", "u", "v", "w", "x", "y", "z">>

LowerChar(c) ==
    IF \E i \in DOMAIN UpperCase : UpperCase[i] = c
    THEN LowerCase[CHOOSE i \in DOMAIN UpperCase : UpperCase[i] = c]
    ELSE c

\* str::to_lowercase (on the ASCII letters)
to_lowercase(s) == [i \in DOMAIN s |-> LowerChar(s[i])]

\* The regex crate's \d is Unicode-aware: any decimal digit (class Nd).
IsRegexDigit(c) == c \in AsciiDigits \cup NonAsciiDigits

\* ^\d{1,4}-\d{1,2}-\d{1,2}$
is_match_loose_widths(date_str) ==
    \E i, j \in 1..Len(date_str) :
        /\ i >= 2 /\ i <= 5 /\ j - i >= 2 /\ j - i <= 3
        /\ Len(date_str) - j >= 1 /\ Len(date_str) - j <= 2
        /\ date_str[i] = "-" /\ date_str[j] = "-"
        /\ \A k \in 1..Len(date_str) : k \in {i, j} \/ IsRegexDigit(date_str[k])

\* Regex::new(r"^\d{4}-\d{2}-\d{2}$").is_match(&date_str)  (tasks.rs 34-35).
is_match(date_str) ==
    /\ Len(date_str) = 10
    /\ \A i \in {1, 2, 3, 4, 6, 7, 9, 10} : IsRegexDigit(date_str[i])
    /\ date_str[5] = "-"
    /\ date_str[8] = "-"

\* chrono's scan::number: how many ASCII digits start at i, at most max.
RECURSIVE ScanDigits(_, _, _)
ScanDigits(s, i, max) ==
    IF max = 0 \/ i > Len(s) \/ s[i] \notin AsciiDigits THEN 0
    ELSE 1 + ScanDigits(s, i + 1, max - 1)

RECURSIVE NumVal(_, _, _)
NumVal(s, i, n) ==
    IF n = 0 THEN 0 ELSE NumVal(s, i, n - 1) * 10 + DigitVal(s[i + n - 1])

\* NaiveDate::parse_from_str(&date_str, "%Y-%m-%d"): %Y takes 1 to 4 ASCII
\* digits (any number after an explicit sign), %m and %d take 1 to 2, the
\* dashes are literal, nothing may follow, and the date must exist.
parse_from_str(s) ==
    LET signed == Len(s) > 0 /\ s[1] \in {"+", "-"}
        y0 == IF signed THEN 2 ELSE 1
        yn == ScanDigits(s, y0, IF signed THEN Len(s) ELSE 4)
        m0 == y0 + yn + 1
        mn == ScanDigits(s, m0, 2)
        d0 == m0 + mn + 1
        dn == ScanDigits(s, d0, 2)
        shape == /\ yn >= 1 /\ yn <= 6
                 /\ m0 - 1 <= Len(s) /\ s[m0 - 1] = "-"
                 /\ mn >= 1
                 /\ d0 - 1 <= Len(s) /\ s[d0 - 1] = "-"
                 /\ dn >= 1
                 /\ d0 + dn - 1 = Len(s)
        y == (IF signed /\ s[1] = "-" THEN -1 ELSE 1) * NumVal(s, y0, yn)
        m == NumVal(s, m0, mn)
        d == NumVal(s, d0, dn)
    IN  IF shape /\ m >= 1 /\ m <= 12 /\ d >= 1 /\ d <= DaysInMonth(y, m)
        THEN [ok |-> TRUE, y |-> y, m |-> m, d |-> d]
        ELSE [ok |-> FALSE, y |-> 0, m |-> 0, d |-> 0]

(***************************************************************************)
(* Task.                                                                   *)
(***************************************************************************)
MkTask(id, text, created_at, due_date, priority, category) ==
    [id |-> id, text |-> text, created_at |-> created_at,
     due_date |-> due_date, priority |-> priority, category |-> category]

NoTask == MkTask(0, <<>>, [days |-> 0, sod |-> 0, nanos |-> 0], None, None, None)

\* Task::new(text, due_date) with Utc::now() = now  (tasks.rs 30-58).
Task_new(text, due_date, now) ==
    IF IsSome(due_date) /\ ~is_match(Unwrap(due_date))
    THEN [result |-> "InvalidInput", task |-> NoTask]
    ELSE IF IsSome(due_date) /\ ~parse_from_str(Unwrap(due_date)).ok
    THEN [result |-> "InvalidInput", task |-> NoTask]
    ELSE LET p == parse_from_str(Unwrap(due_date))
             due == IF IsSome(due_date) THEN Some(and_hms_0(p.y, p.m, p.d))
                    ELSE None
         IN  [result |-> "Ok",
              task |-> MkTask(0, text, now, due, None, None)]

(***************************************************************************)
(* The journal file as JSON.  The content of the file is a sequence of     *)
(* tokens [t, v]: "[", "]", ",", a complete task object ("obj", with the   *)
(* object in v), or "junk" (any text that is not JSON).  The white space   *)
(* of the pretty printer is not modelled.  A failed write leaves a prefix  *)
(* of the tokens, cut at a token boundary.                                 *)
(***************************************************************************)
Tok(t) == [t |-> t, v |-> <<>>]

ObjTok(o) == [t |-> "obj", v |-> <<o>>]

\* chrono::serde::ts_seconds: a DateTime is written as its timestamp in whole
\* seconds; the nanoseconds are not written.
ts_seconds_ser(dt) == [days |-> dt.days, sod |-> dt.sod]

\* ts_seconds on reading: Utc.timestamp_opt(secs, 0).
ts_seconds_de(ts) == [days |-> ts.days, sod |-> ts.sod, nanos |-> 0]

\* #[derive(Serialize)] for Task (tasks.rs 13-27).
SerTask(task) ==
    [id |-> task.id, text |-> task.text,
     created_at |-> ts_seconds_ser(task.created_at),
     due_date |-> IF IsSome(task.due_date)
                  THEN Some(ts_seconds_ser(Unwrap(task.due_date))) ELSE None,
     priority |-> task.priority, category |-> task.category]

\* #[derive(Deserialize)] for Task (tasks.rs 13-27).
DeTask(o) ==
    [id |-> o.id, text |-> o.text,
     created_at |-> ts_seconds_de(o.created_at),
     due_date |-> IF IsSome(o.due_date)
                  THEN Some(ts_seconds_de(Unwrap(o.due_date))) ELSE None,
     priority |-> o.priority, category |-> o.category]

RECURSIVE SerElems(_)
SerElems(tasks) ==
    IF tasks = <<>> THEN <<>>
    ELSE IF Len(tasks) = 1 THEN <<ObjTok(SerTask(tasks[1]))>>
    ELSE <<ObjTok(SerTask(tasks[1])), Tok(",")>> \o SerElems(Tail(tasks))

\* serde_json::to_writer_pretty(file, &tasks): everything it writes.
to_writer_pretty(tasks) == <<Tok("[")>> \o SerElems(tasks) \o <<Tok("]")>>

\* serde_json reading the elements of the array from token i on.
\* st: "first" after "[", "elem" after an object, "comma" after a comma.
RECURSIVE ParseArray(_, _, _, _)
ParseArray(toks, i, st, acc) ==
    IF i > Len(toks) THEN [kind |-> "eof", tasks |-> <<>>]
    ELSE LET tk == toks[i].t
         IN  IF tk = "]" /\ st \in {"first", "elem"}
             THEN IF i < Len(toks)
                  THEN [kind |-> "syntax", tasks |-> <<>>]
                  ELSE [kind |-> "ok", tasks |-> acc]
             ELSE IF tk = "obj" /\ st \in {"first", "comma"}
             THEN ParseArray(toks, i + 1, "elem",
                             Append(acc, DeTask(toks[i].v[1])))
             ELSE IF tk = "," /\ st = "elem"
             THEN ParseArray(toks, i + 1, "comma", acc)
             ELSE [kind |-> "syntax", tasks |-> <<>>]

\* serde_json::from_reader::<Vec<Task>>: "ok" with the tasks, "eof" when the
\* input ends before the value does (an empty file included), "syntax" for
\* every other error.
from_reader(toks) ==
    IF toks = <<>> THEN [kind |-> "eof", tasks |-> <<>>]
    ELSE IF toks[1].t /= "[" THEN [kind |-> "syntax", tasks |-> <<>>]
    ELSE ParseArray(toks, 2, "first", <<>>)

\* collect_tasks (tasks.rs 90-99).  fault = "read": a seek or read fails.
collect_tasks(content, fault) ==
    IF fault = "read" THEN [result |-> "IoError", tasks |-> <<>>]
    ELSE LET r == from_reader(content)
         IN  IF r.kind = "ok" THEN [result |-> "Ok", tasks |-> r.tasks]
             ELSE IF r.kind = "eof" THEN [result |-> "Ok", tasks |-> <<>>]
             ELSE [result |-> "InvalidData", tasks |-> <<>>]

(***************************************************************************)
(* The file system.  A file is [exists, content].                          *)
(***************************************************************************)
Missing == [exists |-> FALSE, content |-> <<>>]

FileOf(content) == [exists |-> TRUE, content |-> content]

\* OpenOptions::new().read(true).write(true).create(true).open(path)
open_create(f) == IF f.exists THEN f ELSE FileOf(<<>>)

\* A write that numbers the tasks by their position in the array.
write_all_renumbered(tasks, fault, cut) ==
    LET text == to_writer_pretty([i \in DOMAIN tasks |-> [tasks[i] EXCEPT !.id = i]])
    IN  IF fault = "write"
        THEN FileOf(SubSeq(text, 1, IF cut < Len(text) THEN cut ELSE Len(text) - 1))
        ELSE FileOf(text)

\* What comes out of set_len(0) followed by to_writer_pretty: the whole text,
\* or, when the write fails, the first cut tokens of it (never all of them).
write_all(tasks, fault, cut) ==
    LET text == to_writer_pretty(tasks)
    IN  IF fault = "write"
        THEN FileOf(SubSeq(text, 1, IF cut < Len(text) THEN cut ELSE Len(text) - 1))
        ELSE FileOf(text)

RemoveAt(s, k) == SubSeq(s, 1, k - 1) \o SubSeq(s, k + 1, Len(s))

NoOut == [msg |-> "", rows |-> <<>>]

Ret(result, f, out) == [result |-> result, file |-> f, out |-> out]

\* An id counted from zero: the length before the push.
next_id_zero_based(tasks) == Len(tasks)

\* task.id = tasks.len() + 1  (tasks.rs 110)
next_id(tasks) == Len(tasks) + 1

\* add_task (tasks.rs 101-119) on file f; fault names the I/O step that
\* fails ("none": no step fails), cut the tokens written by a failing write.
add_task(f, task, fault, cut) ==
    IF fault = "open" THEN Ret("IoError", f, NoOut)
    ELSE LET opened == open_create(f)
             loaded == collect_tasks(opened.content, fault)
             tasks  == sort(Append(loaded.tasks,
                                   [task EXCEPT !.id = next_id(loaded.tasks)]))
         IN  IF loaded.result /= "Ok" THEN Ret(loaded.result, opened, NoOut)
             ELSE IF fault = "truncate" THEN Ret("IoError", opened, NoOut)
             ELSE Ret(IF fault = "write" THEN "IoError" ELSE "Ok",
                      write_all(tasks, fault, cut), NoOut)

position_check_off_by_one(task_position, tasks) ==
    task_position = 0 \/ task_position > Len(tasks) + 1

\* task_position == 0 || task_position > tasks.len()  (tasks.rs 132)
position_check(task_position, tasks) ==
    task_position = 0 \/ task_position > Len(tasks)

\* complete_task (tasks.rs 121-143).
complete_task(f, task_position, fault, cut) ==
    IF fault = "open" THEN Ret("IoError", f, NoOut)
    ELSE IF ~f.exists THEN Ret("NotFound", f, NoOut)
    ELSE LET loaded == collect_tasks(f.content, fault)
             tasks  == sort(RemoveAt(loaded.tasks, task_position))
         IN  IF loaded.result /= "Ok" THEN Ret(loaded.result, f, NoOut)
             ELSE IF position_check(task_position, loaded.tasks)
             THEN Ret("InvalidInput", f, NoOut)
             ELSE IF fault = "truncate" THEN Ret("IoError", f, NoOut)
             ELSE Ret(IF fault = "write" THEN "IoError" ELSE "Ok",
                      write_all(tasks, fault, cut), NoOut)

\* The loop of list_tasks (tasks.rs 170-179): the rows printed for tasks[i..],
\* the running index starting at order.
RECURSIVE ListRows(_, _, _, _)
ListRows(tasks, i, order, category) ==
    IF i > Len(tasks) THEN <<>>
    ELSE IF category = None \/ tasks[i].category = category
    THEN <<[order |-> Some(order), task |-> tasks[i]]>>
         \o ListRows(tasks, i + 1, order + 1, category)
    ELSE ListRows(tasks, i + 1, order, category)

sort_by_always_asc(tasks, sort_order) == StableSort(tasks, FALSE)

\* match sort_order.as_str() { "desc" => sort_by(b.cmp(a)), _ => sort_by(a.cmp(b)) }
sort_by(tasks, sort_order) == StableSort(tasks, sort_order = S_desc)

\* list_tasks opening the journal the way add_task does, with create(true).
list_tasks_open_create(f, category, sort_order, fault) ==
    IF fault = "open" THEN Ret("IoError", f, NoOut)
    ELSE LET opened == open_create(f)
             loaded == collect_tasks(opened.content, fault)
             tasks  == sort_by(loaded.tasks, sort_order)
         IN  IF loaded.result /= "Ok" THEN Ret(loaded.result, opened, NoOut)
             ELSE IF tasks = <<>>
             THEN Ret("Ok", opened, [msg |-> "Task list is empty!", rows |-> <<>>])
             ELSE Ret("Ok", opened, [msg |-> "table",
                                     rows |-> ListRows(tasks, 1, 1, category)])

\* list_tasks (tasks.rs 145-183).
list_tasks(f, category, sort_order, fault) ==
    IF fault = "open" THEN Ret("IoError", f, NoOut)
    ELSE IF ~f.exists THEN Ret("NotFound", f, NoOut)
    ELSE LET loaded == collect_tasks(f.content, fault)
             tasks  == sort_by(loaded.tasks, sort_order)
         IN  IF loaded.result /= "Ok" THEN Ret(loaded.result, f, NoOut)
             ELSE IF tasks = <<>>
             THEN Ret("Ok", f, [msg |-> "Task list is empty!", rows |-> <<>>])
             ELSE Ret("Ok", f, [msg |-> "table",
                                rows |-> ListRows(tasks, 1, 1, category)])

\* The keyword occurs in the text, upper and lower case taken as equal.
contains_ignoring_case(text, keyword) ==
    \E i \in 0..Len(text) :
        /\ i + Len(keyword) <= Len(text)
        /\ [k \in 1..Len(keyword) |-> LowerChar(text[i + k])]
           = [k \in 1..Len(keyword) |-> LowerChar(keyword[k])]

\* str::contains: the keyword occurs in the text (tasks.rs 194).
contains(text, keyword) ==
    \E i \in 0..Len(text) : /\ i + Len(keyword) <= Len(text)
                            /\ SubSeq(text, i + 1, i + Len(keyword)) = keyword

\* tasks.iter().filter(|task| task.text.contains(&keyword))
RECURSIVE SearchRows(_, _, _)
SearchRows(tasks, i, keyword) ==
    IF i > Len(tasks) THEN <<>>
    ELSE IF contains(tasks[i].text, keyword)
    THEN <<[order |-> None, task |-> tasks[i]]>> \o SearchRows(tasks, i + 1, keyword)
    ELSE SearchRows(tasks, i + 1, keyword)

\* search_tasks (tasks.rs 185-212).
search_tasks(f, keyword, fault) ==
    IF fault = "open" THEN Ret("IoError", f, NoOut)
    ELSE IF ~f.exists THEN Ret("NotFound", f, NoOut)
    ELSE LET loaded == collect_tasks(f.content, fault)
             rows   == SearchRows(loaded.tasks, 1, keyword)
         IN  IF loaded.result /= "Ok" THEN Ret(loaded.result, f, NoOut)
             ELSE IF rows = <<>>
             THEN Ret("Ok", f, [msg |-> "No tasks found with the keyword",
                                rows |-> <<>>])
             ELSE Ret("Ok", f, [msg |-> "table", rows |-> rows])

(***************************************************************************)
(* The command line (main.rs).                                             *)
(***************************************************************************)
valid_priorities == {S_low, S_medium, S_high}

\* A prompt that takes the first line typed, valid or not.
prompt_for_priority_first_line(lines) ==
    IF lines = <<>> THEN [returned |-> FALSE, value |-> <<>>]
    ELSE [returned |-> TRUE, value |-> to_lowercase(trim(Head(lines)))]

\* prompt_for_priority (main.rs 47-72) reading the lines typed on stdin, one
\* per round of the loop.  It returns at the first line that is a valid
\* priority once trimmed and lower-cased; when the lines run out before one
\* is valid the loop has not returned.
RECURSIVE prompt_for_priority(_)
prompt_for_priority(lines) ==
    IF lines = <<>> THEN [returned |-> FALSE, value |-> <<>>]
    ELSE LET priority == to_lowercase(trim(Head(lines)))
         IN  IF priority \in valid_priorities
             THEN [returned |-> TRUE, value |-> priority]
             ELSE prompt_for_priority(Tail(lines))

\* prompt_for_category (main.rs 74-85): the line typed, trimmed.
prompt_for_category(line) == trim(line)

\* The task handed to add_task by the Add arm of main (main.rs 32-34).
main_new_task(made, prio_lines, cat_line) ==
    [made.task EXCEPT
       !.priority = Some(prompt_for_priority(prio_lines).value),
       !.category = Some(prompt_for_category(cat_line))]

\* The Add arm of main (main.rs 31-36): Task::new fails before anything is
\* read from stdin or done to the file.
main_add(f, in, fault, cut) ==
    LET made == Task_new(in.text, in.due_date, in.now)
    IN  IF made.result /= "Ok" THEN Ret(made.result, f, NoOut)
        ELSE add_task(f, main_new_task(made, in.prio_lines, in.cat_line),
                      fault, cut)

(***************************************************************************)
(* Inputs.                                                                 *)
(***************************************************************************)
At(days, sod, nanos) == [days |-> days, sod |-> sod, nanos |-> nanos]

\* Tasks handed to add_task directly, as the tests of tasks.rs do: any
\* priority and category, created_at = Utc::now(), due a week later.
StoreTaskInputs ==
    { MkTask(0, <<"b">>, At(19000, 5, 250), None, None, None),
      MkTask(0, <<"a", "b">>, At(19000, 6, 0), Some(At(19007, 6, 0)),
             Some(<<"x">>), Some(<<"w">>)) }

CliInput(text, due_date, now, prio_lines, cat_line) ==
    [text |-> text, due_date |-> due_date, now |-> now,
     prio_lines |-> prio_lines, cat_line |-> cat_line]

D_2022_12_31 == <<"2", "0", "2", "2", "-", "1", "2", "-", "3", "1">>

D_slashes == <<"2", "0", "2", "2", "/", "1", "2", "/", "3", "1">>

D_not_a_date == <<"n", "o", "t", "-", "a", "-", "d", "a", "t", "e">>

\* Invocations of the add command: the text, --due-date, the clock, the lines
\* typed at the priority prompt and the line typed at the category prompt.
CliInputs ==
    { CliInput(<<"A", "b">>, None, At(19001, 1, 1),
               << <<"H", "i", "g", "h", "\n">> >>, <<"w", "\n">>),
      CliInput(<<"a">>, Some(D_2022_12_31), At(19001, 2, 0),
               << <<"l", "o", "\n">>, <<" ", "l", "o", "w", " ", "\n">> >>,
               <<" ", "h", "\n">>),
      CliInput(<<>>, None, At(19001, 3, 77),
               << <<"M", "E", "D", "I", "U", "M", "\n">> >>, <<"\n">>),
      CliInput(<<"a">>, Some(D_slashes), At(19001, 4, 0),
               << <<"l", "o", "w", "\n">> >>, <<"w", "\n">>) }

NoCli == CliInput(<<>>, None, At(0, 0, 0), <<>>, <<>>)

Categories == {None, Some(<<"w">>)}

SortOrders == {S_asc, S_desc}

Keywords == {<<>>, <<"a">>, <<"b">>, <<"a", "b">>}

\* done is tried at 0, at every position of a full store and one past it.
Positions == 0..(MaxTasks + 1)

Faults == {"none", "open", "read", "truncate", "write"}

ReadFaults == {"none", "open", "read"}

\* The tokens a failing write may get out before it fails.
Cuts(fault) == IF fault = "write" THEN 0..MaxCut ELSE {0}

\* Journal files the program may find: none, an empty one, the text "[]",
\* an array cut short, and text that is not JSON.
InitFiles ==
    { Missing, FileOf(<<>>), FileOf(<<Tok("["), Tok("]")>>),
      FileOf(<<Tok("[")>>), FileOf(<<Tok("junk")>>) }

(***************************************************************************)
(* The state machine: one action per invocation of the program.            *)
(***************************************************************************)
Last(op, task, cli, pos, category, sort_order, keyword, fault, r) ==
    [op |-> op, task |-> task, cli |-> cli, pos |-> pos,
     category |-> category, sort_order |-> sort_order, keyword |-> keyword,
     fault |-> fault, result |-> r.result, out |-> r.out, prev |-> file]

\* The tasks the program loads from f when nothing fails.
Loaded(f) == collect_tasks(f.content, "none")

Init ==
    /\ file \in InitFiles
    /\ last = [op |-> "init", task |-> NoTask, cli |-> NoCli, pos |-> 0,
               category |-> None, sort_order |-> S_asc, keyword |-> <<>>,
               fault |-> "none", result |-> "Ok", out |-> NoOut, prev |-> file]

\* An injected fault is one that fires; a cut belongs to a failing write.
Fires(fault, cut, r) ==
    /\ fault /= "none" => r.result = "IoError"
    /\ fault = "write" => Len(r.file.content) = cut

\* tasks::add_task(journal_file, task)
Add(task, fault, cut) ==
    LET r == add_task(file, task, fault, cut)
    IN  /\ Len(Loaded(file).tasks) < MaxTasks
        /\ Fires(fault, cut, r)
        /\ file' = r.file
        /\ last' = Last("add", task, NoCli, 0, None, S_asc, <<>>, fault, r)

\* rusty-journal add TEXT [--due-date D], with the prompts answered.
CmdAdd(in, fault, cut) ==
    LET r == main_add(file, in, fault, cut)
        made == Task_new(in.text, in.due_date, in.now)
        task == IF made.result = "Ok"
                THEN main_new_task(made, in.prio_lines, in.cat_line)
                ELSE NoTask
    IN  /\ Len(Loaded(file).tasks) < MaxTasks
        /\ prompt_for_priority(in.prio_lines).returned
        /\ Fires(fault, cut, r)
        /\ file' = r.file
        /\ last' = Last("add", task, in, 0, None, S_asc, <<>>, fault, r)

\* rusty-journal done POSITION
Done(position, fault, cut) ==
    LET r == complete_task(file, position, fault, cut)
    IN  /\ Fires(fault, cut, r)
        /\ file' = r.file
        /\ last' = Last("done", NoTask, NoCli, position, None, S_asc, <<>>,
                        fault, r)

\* rusty-journal list [--category C] [--sort-order S]
List(category, sort_order, fault) ==
    LET r == list_tasks(file, category, sort_order, fault)
    IN  /\ Fires(fault, 0, r)
        /\ file' = r.file
        /\ last' = Last("list", NoTask, NoCli, 0, category, sort_order, <<>>,
                        fault, r)

\* rusty-journal search KEYWORD
Search(keyword, fault) ==
    LET r == search_tasks(file, keyword, fault)
    IN  /\ Fires(fault, 0, r)
        /\ file' = r.file
        /\ last' = Last("search", NoTask, NoCli, 0, None, S_asc, keyword,
                        fault, r)

\* The tasks handed to add_task directly where every command is tried: the
\* one with a priority that is none of the three.
StoreTaskInputsAll ==
    {t \in StoreTaskInputs : t.priority /= None}

Next ==
    \/ \E task \in StoreTaskInputsAll : Add(task, "none", 0)
    \/ \E in \in CliInputs : CmdAdd(in, "none", 0)
    \/ \E position \in Positions : Done(position, "none", 0)
    \/ \E category \in Categories, sort_order \in SortOrders :
          List(category, sort_order, "none")
    \/ \E keyword \in Keywords : Search(keyword, "none")

\* Every command, every invocation running to its end without an I/O failure.
Spec == Init /\ [][Next]_vars

\* The inputs of the invocations whose I/O may fail: one task of each kind.
StoreTaskInputsIO ==
    {t \in StoreTaskInputs : t.priority = None}

CliInputsIO ==
    {in \in CliInputs : in.text = <<"A", "b">> \/ in.due_date = Some(D_slashes)}

NextIO ==
    \/ \E task \in StoreTaskInputsIO, fault \in Faults :
          \E cut \in Cuts(fault) : Add(task, fault, cut)
    \/ \E in \in CliInputsIO, fault \in Faults :
          \E cut \in Cuts(fault) : CmdAdd(in, fault, cut)
    \/ \E position \in Positions, fault \in Faults :
          \E cut \in Cuts(fault) : Done(position, fault, cut)
    \/ \E category \in Categories, sort_order \in SortOrders,
          fault \in ReadFaults :
          List(category, sort_order, fault)
    \/ \E keyword \in {<<>>, <<"a">>}, fault \in ReadFaults :
          Search(keyword, fault)

\* Any I/O step of an invocation may fail.
SpecIO == Init /\ [][NextIO]_vars

(***************************************************************************)
(* The add command over many --due-date values.                            *)
(***************************************************************************)
\* YEAR sep MONTH sep DAY for every choice of the parts: well-formed dates,
\* dates that do not exist, wrong separators, fields too short or too long.
DateParts ==
    { y \o a \o m \o b \o d :
        y \in {<<"2", "0", "2", "4">>},
        a \in {<<"-">>, <<"/">>},
        m \in {<<"0", "2">>, <<"1", "3">>, <<"2">>},
        b \in {<<"-">>, <<>>},
        d \in {<<"2", "9">>, <<"3", "0">>, <<"5">>, <<"0", "U+0663">>} }

DateStrings ==
    DateParts \cup
    { D_2022_12_31, D_slashes, D_not_a_date, <<>>,
      <<" ">> \o D_2022_12_31, D_2022_12_31 \o <<"\n">>,
      <<"2", "0", "2", "3", "-", "0", "2", "-", "2", "9">>,
      <<"2", "0", "2", "-", "0", "2", "-", "2", "9">>,
      <<"2", "0", "2", "-", "2", "-", "5">>,
      <<"2", "0", "2", "2", "-", "1", "2", "-", "3", "U+0663">>,
      <<"2", "2", "-", "1", "2", "-", "3", "1", "0", "0">>,
      <<"3", "1", "-", "1", "2", "-", "2", "0", "2", "2">>,
      <<"2", "0", "2", "2", "1", "2", "3", "1">>,
      <<"2", "0", "2", "3", "1", "-", "0", "2", "-", "0", "5">>,
      <<"+", "2", "0", "2", "2", "-", "1", "-", "1">> }

DateCliInputs ==
    { CliInput(<<"a">>, Some(d), At(19001, 2, 0),
               << <<"l", "o", "w", "\n">> >>, <<"w", "\n">>) : d \in DateStrings }

NextDate ==
    \/ \E in \in DateCliInputs : CmdAdd(in, "none", 0)
    \/ \E position \in Positions : Done(position, "none", 0)

SpecDate == Init /\ [][NextDate]_vars

(***************************************************************************)
(* The add command over --due-date values of the form YYYY-MM-DD.          *)
(***************************************************************************)
YMD(y, m, d) == y \o <<"-">> \o m \o <<"-">> \o d

\* Dates of the calendar: the first and the last year of four digits, the
\* days around the epoch, leap days.
DueDates ==
    { YMD(<<"0", "0", "0", "0">>, <<"0", "1">>, <<"0", "1">>),
      YMD(<<"9", "9", "9", "9">>, <<"1", "2">>, <<"3", "1">>),
      YMD(<<"1", "9", "6", "9">>, <<"1", "2">>, <<"3", "1">>),
      YMD(<<"1", "9", "7", "0">>, <<"0", "1">>, <<"0", "1">>),
      YMD(<<"2", "0", "0", "0">>, <<"0", "2">>, <<"2", "9">>),
      YMD(<<"2", "1", "0", "0">>, <<"0", "3">>, <<"0", "1">>) }

\* Strings of the same form that name no day of the calendar.
DueNoDates ==
    { YMD(<<"2", "0", "2", "4">>, <<"0", "2">>, <<"3", "0">>),
      YMD(<<"2", "0", "2", "3">>, <<"0", "2">>, <<"2", "9">>),
      YMD(<<"2", "1", "0", "0">>, <<"0", "2">>, <<"2", "9">>),
      YMD(<<"2", "0", "2", "4">>, <<"0", "4">>, <<"3", "1">>),
      YMD(<<"2", "0", "2", "4">>, <<"1", "3">>, <<"0", "1">>),
      YMD(<<"2", "0", "2", "4">>, <<"0", "0">>, <<"1", "0">>),
      YMD(<<"2", "0", "2", "4">>, <<"0", "1">>, <<"0", "0">>),
      YMD(<<"2", "0", "2", "4">>, <<"1", "2">>, <<"3", "2">>) }

DueCliInputs ==
    { CliInput(<<"a">>, Some(d), At(19001, 2, 0),
               << <<"l", "o", "w", "\n">> >>, <<"w", "\n">>) :
        d \in DueDates \cup DueNoDates }

NextDue == \E in \in DueCliInputs : CmdAdd(in, "none", 0)

\* Adds only: every sequence of up to MaxTasks of the dates is stored.
SpecDue == Init /\ [][NextDue]_vars

\* The journal starts out missing or empty.
InitEmpty == Init /\ file \in {Missing, FileOf(<<>>)}

\* The commands that write the journal, with every task of the inputs whose
\* due date is accepted.
NextStore ==
    \/ \E task \in StoreTaskInputs : Add(task, "none", 0)
    \/ \E in \in {i \in CliInputs : i.due_date /= Some(D_slashes)} :
          CmdAdd(in, "none", 0)
    \/ \E position \in Positions : Done(position, "none", 0)

\* The stores built by add and done from a missing or empty journal.  list
\* and search leave the file alone: they add no store to these.
SpecEmpty == InitEmpty /\ [][NextStore]_vars

(***************************************************************************)
(* Tasks of equal rank: add, done and list over the tasks handed to        *)
(* add_task directly (both of rank 4) and one task of rank 1.              *)
(***************************************************************************)
NextTies ==
    \/ \E task \in StoreTaskInputs : Add(task, "none", 0)
    \/ \E in \in {i \in CliInputs : i.text = <<"A", "b">>} : CmdAdd(in, "none", 0)
    \/ \E position \in Positions : Done(position, "none", 0)
    \/ \E category \in Categories, sort_order \in SortOrders :
          List(category, sort_order, "none")

SpecTies == InitEmpty /\ [][NextTies]_vars

(***************************************************************************)
(* The add command with the priority prompt answered in many ways, and     *)
(* done.  The added invocations differ from those of CliInputs in the      *)
(* lines typed at the priority prompt only.                                *)
(***************************************************************************)
PrioCliInputs ==
    { CliInput(<<"A", "b">>, None, At(19001, 1, 1),
               << <<"u", "r", "g", "e", "n", "t", "\n">>,
                  <<"h", "i", "g", "h", "h", "\n">>,
                  <<"\t", "H", "I", "G", "H", " ", "\r", "\n">> >>,
               <<"w", "\n">>),
      CliInput(<<"a">>, Some(D_2022_12_31), At(19001, 2, 0),
               << <<"\n">>, <<"l", " ", "o", "w", "\n">>, <<"4", "\n">>,
                  <<"L", "o", "W">> >>,
               <<" ", "h", "\n">>),
      CliInput(<<>>, None, At(19001, 3, 77),
               << <<"n", "o", "n", "e", "\n">>,
                  <<"m", "e", "d", "i", "u", "m", "\n">>,
                  <<"h", "i", "g", "h", "\n">> >>,
               <<"\n">>),
      CliInput(<<"a">>, None, At(19001, 5, 0),
               << <<"x", "\n">>, <<"H", "i", "\n">> >>, <<"w", "\n">>) }

NextCli ==
    \/ \E in \in CliInputs \cup PrioCliInputs : CmdAdd(in, "none", 0)
    \/ \E position \in Positions : Done(position, "none", 0)

\* A store built from a missing or empty journal by the add and done commands.
SpecCli == InitEmpty /\ [][NextCli]_vars

(***************************************************************************)
(* Vocabulary of the properties.                                           *)
(***************************************************************************)
\* The file holds a valid JSON array of tasks.
IsStore(f) == f.exists /\ from_reader(f.content).kind = "ok"

\* The persisted task sequence of a file that holds one.
TasksOf(f) == from_reader(f.content).tasks

\* The priority rank as the specification states it.
Rank(t) ==
    CASE t.priority = Some(S_high) -> 1
      [] t.priority = Some(S_medium) -> 2
      [] t.priority = Some(S_low) -> 3
      [] OTHER -> 4

\* s without its k-th element.
Without(s, k) == [i \in 1..(Len(s) - 1) |-> IF i < k THEN s[i] ELSE s[i + 1]]

\* How many times x occurs in s.
Count(s, x) == Cardinality({i \in DOMAIN s : s[i] = x})

Range(s) == {s[i] : i \in DOMAIN s}

(***************************************************************************)
(* C1  From an empty or missing journal, after any sequence of add and     *)
(* done invocations the persisted tasks are in ascending order of priority *)
(* rank: each task's rank is at most the rank of the task after it.        *)
(***************************************************************************)
C1_SortedByRank ==
    IsStore(file) =>
        \A i \in 1..(Len(TasksOf(file)) - 1) :
            Rank(TasksOf(file)[i]) <= Rank(TasksOf(file)[i + 1])

\* An add put a task in front of tasks of a larger rank persisted before it.
C1_Witness ==
    /\ last.op = "add" /\ last.result = "Ok"
    /\ IsStore(last.prev) /\ Len(TasksOf(last.prev)) = 2
    /\ Rank(last.task) < Rank(TasksOf(last.prev)[1])
    /\ Rank(TasksOf(file)[1]) < Rank(TasksOf(file)[3])

(***************************************************************************)
(* C2  From an empty or missing journal, after any sequence of add and     *)
(* done invocations no two persisted tasks have the same id, and every id  *)
(* is a positive integer.                                                  *)
(***************************************************************************)
C2_UniquePositiveIds ==
    IsStore(file) =>
        /\ \A i \in DOMAIN TasksOf(file) : TasksOf(file)[i].id > 0
        /\ \A i, j \in DOMAIN TasksOf(file) :
               i /= j => TasksOf(file)[i].id /= TasksOf(file)[j].id

(***************************************************************************)
(* C3  On a journal holding n tasks, done 0 and done p for p > n fail with *)
(* InvalidInput and leave the file as it was; done k for 1 <= k <= n       *)
(* succeeds and persists the other n - 1 tasks, the k-th one left out, in  *)
(* the order they had.                                                     *)
(***************************************************************************)
C3_CompleteByPosition ==
    (last.op = "done" /\ IsStore(last.prev)) =>
        LET old == TasksOf(last.prev)
            k   == last.pos
        IN  IF k = 0 \/ k > Len(old)
            THEN last.result = "InvalidInput" /\ file = last.prev
            ELSE /\ last.result = "Ok"
                 /\ IsStore(file)
                 /\ TasksOf(file) = Without(old, k)

\* done 2 on three tasks of different ranks succeeded.
C3_Witness ==
    /\ last.op = "done" /\ last.result = "Ok" /\ last.pos = 2
    /\ IsStore(last.prev) /\ Len(TasksOf(last.prev)) = 3
    /\ Rank(TasksOf(last.prev)[1]) < Rank(TasksOf(last.prev)[3])
    /\ Len(TasksOf(file)) = 2

(***************************************************************************)
(* C4  No partial-success states: after every add and done invocation,     *)
(* also one in which an I/O step fails, the journal holds either the       *)
(* complete new collection or exactly the content it had before; it is     *)
(* never left empty, truncated or partly written.                          *)
(***************************************************************************)
C4_NoPartialWrite ==
    last.op \in {"add", "done"} =>
        \/ file.content = last.prev.content
        \/ last.result = "Ok" /\ IsStore(file)

(***************************************************************************)
(* C6  Every operation treats a missing journal and a zero-length journal  *)
(* as the empty store: add succeeds, list reports an empty list, search    *)
(* reports no matches, and done fails with InvalidInput, never with an     *)
(* I/O error.                                                              *)
(***************************************************************************)
C6_MissingOrEmptyIsEmptyStore ==
    (last.op /= "init" /\ last.fault = "none"
       /\ (~last.prev.exists \/ last.prev.content = <<>>)) =>
        CASE last.op = "add" ->
                \/ last.result = "Ok"
                \/ IsSome(last.cli.due_date) /\ last.result = "InvalidInput"
          [] last.op = "list" ->
                last.result = "Ok" /\ last.out.msg = "Task list is empty!"
          [] last.op = "search" ->
                /\ last.result = "Ok"
                /\ last.out.msg = "No tasks found with the keyword"
          [] last.op = "done" -> last.result = "InvalidInput"

(***************************************************************************)
(* C7  Whenever the journal has content that is not a valid JSON array of  *)
(* tasks (an array cut short included), every operation that loads it      *)
(* fails with a parse error and leaves the content as it is.               *)
(***************************************************************************)
C7_MalformedIsParseError ==
    (last.op /= "init" /\ last.fault = "none"
       /\ last.prev.exists /\ last.prev.content /= <<>>
       /\ ~IsStore(last.prev)
       /\ ~(last.op = "add" /\ IsSome(last.cli.due_date)
              /\ last.result = "InvalidInput")) =>
        last.result = "InvalidData" /\ file = last.prev

(***************************************************************************)
(* C5  For every --due-date value that is not of the strict form of four   *)
(* digits, a dash, two digits, a dash, two digits, the add command fails   *)
(* with InvalidInput and the journal is as before: not created, not        *)
(* rewritten, no task added.                                               *)
(***************************************************************************)
\* The strict YYYY-MM-DD form.
StrictYMD(s) ==
    /\ Len(s) = 10
    /\ \A i \in 1..10 : IF i \in {5, 8} THEN s[i] = "-"
                        ELSE s[i] \in AsciiDigits

C5_MalformedDueDateRejected ==
    (last.op = "add" /\ IsSome(last.cli.due_date)
       /\ ~StrictYMD(Unwrap(last.cli.due_date))) =>
        last.result = "InvalidInput" /\ file = last.prev

\* "2022/12/31" was given to add on a journal holding a task.
C5_Witness ==
    /\ last.op = "add" /\ last.cli.due_date = Some(D_slashes)
    /\ last.result = "InvalidInput"
    /\ IsStore(file) /\ Len(TasksOf(file)) = 1

(***************************************************************************)
(* C8  A task is addressed for completion by its display position: for     *)
(* every store built by add and done, and every way of listing it (either  *)
(* sort order, with or without a category filter), the task that list      *)
(* shows with running index k is the task that done k then removes.        *)
(* Stated on a successful done k: for every listing of the journal as it   *)
(* was before, the row numbered k, if there is one, shows the task that is *)
(* now gone.                                                               *)
(***************************************************************************)
C8_DoneRemovesDisplayedTask ==
    (last.op = "done" /\ last.result = "Ok") =>
        \A c \in Categories, o \in SortOrders :
            LET old   == TasksOf(last.prev)
                shown == list_tasks(last.prev, c, o, "none").out.rows
            IN  \A i \in DOMAIN shown :
                    shown[i].order = Some(last.pos) =>
                        \E j \in DOMAIN old :
                            /\ old[j] = shown[i].task
                            /\ TasksOf(file) = Without(old, j)

(***************************************************************************)
(* C9  list with a category filter shows exactly the stored tasks of that  *)
(* category (each of them, nothing else), without a filter all stored      *)
(* tasks; the rows are numbered 1, 2, .. without gaps; with sort order asc *)
(* the rows are in rank order high, medium, low, none, with desc in the    *)
(* reverse rank order.                                                     *)
(***************************************************************************)
C9_ListFilterAndOrder ==
    (last.op = "list" /\ IsStore(last.prev)) =>
        LET old   == TasksOf(last.prev)
            rows  == last.out.rows
            shown == [i \in DOMAIN rows |-> rows[i].task]
            Wanted(t) == last.category = None \/ t.category = last.category
        IN  /\ last.result = "Ok"
            /\ \A i \in DOMAIN rows : rows[i].order = Some(i)
            /\ \A t \in Range(old) \cup Range(shown) :
                   Count(shown, t) = IF Wanted(t) THEN Count(old, t) ELSE 0
            /\ \A i \in 1..(Len(shown) - 1) :
                   IF last.sort_order = S_desc
                   THEN Rank(shown[i]) >= Rank(shown[i + 1])
                   ELSE Rank(shown[i]) <= Rank(shown[i + 1])

\* A descending listing by category showed two tasks of different ranks and
\* left a third one out.
C9_Witness ==
    /\ last.op = "list" /\ last.result = "Ok"
    /\ last.sort_order = S_desc /\ last.category = Some(<<"w">>)
    /\ Len(TasksOf(last.prev)) = 3
    /\ Len(last.out.rows) = 2
    /\ Rank(last.out.rows[1].task) > Rank(last.out.rows[2].task)

(***************************************************************************)
(* C10  search shows exactly the stored tasks whose text contains the      *)
(* keyword as a case-sensitive substring, each once and in the order of    *)
(* the file; when no task matches it succeeds with the no-tasks-found      *)
(* message.                                                                *)
(***************************************************************************)
\* kw occurs in text: text = pre \o kw \o post.
Occurs(kw, text) ==
    \E a \in 1..(Len(text) + 1) :
        /\ a + Len(kw) - 1 <= Len(text)
        /\ \A i \in 1..Len(kw) : text[a + i - 1] = kw[i]

C10_SearchBySubstring ==
    (last.op = "search" /\ IsStore(last.prev)) =>
        LET old   == TasksOf(last.prev)
            rows  == last.out.rows
            shown == [i \in DOMAIN rows |-> rows[i].task]
            Hit(t) == Occurs(last.keyword, t.text)
        IN  /\ last.result = "Ok"
            /\ shown = SelectSeq(old, Hit)
            /\ rows = <<>> => last.out.msg = "No tasks found with the keyword"

\* A search showed one of three tasks, and not one whose text differs from
\* the keyword in case only.
C10_Witness ==
    /\ last.op = "search" /\ last.result = "Ok" /\ last.keyword = <<"a">>
    /\ Len(TasksOf(last.prev)) = 3
    /\ Len(last.out.rows) = 1
    /\ \E i \in 1..3 : TasksOf(last.prev)[i].text = <<"A", "b">>

(***************************************************************************)
(* C11  list and search produce no persisted change: whatever the journal  *)
(* is (missing, empty, a valid array, malformed), whatever the arguments,  *)
(* and whether the invocation succeeds or fails, the file exists after it  *)
(* exactly if it existed before, with the same content.                    *)
(***************************************************************************)
C11_QueriesLeaveFileAlone ==
    last.op \in {"list", "search"} =>
        /\ file.exists = last.prev.exists
        /\ file.content = last.prev.content

\* A list of a missing journal failed and left no file behind.
C11_Witness ==
    /\ last.op = "list" /\ last.fault = "none" /\ last.result = "NotFound"
    /\ ~last.prev.exists /\ ~file.exists

(***************************************************************************)
(* C12  A successful add on a missing or empty journal persists exactly    *)
(* one task, with id 1.  A successful add on a store of n tasks persists   *)
(* n + 1 tasks: the n it held and the new one, which has id n + 1 and the  *)
(* text, priority and category handed to add.                              *)
(***************************************************************************)
C12_AddAppendsWithNextId ==
    (last.op = "add" /\ last.result = "Ok"
       /\ (IsStore(last.prev) \/ ~last.prev.exists \/ last.prev.content = <<>>)) =>
        LET old == IF IsStore(last.prev) THEN TasksOf(last.prev) ELSE <<>>
            new == TasksOf(file)
        IN  /\ IsStore(file)
            /\ Len(new) = Len(old) + 1
            /\ \E j \in DOMAIN new :
                   /\ Without(new, j) = old
                   /\ new[j].id = Len(old) + 1
                   /\ new[j].text = last.task.text
                   /\ new[j].priority = last.task.priority
                   /\ new[j].category = last.task.category

\* An add on a store of two tasks persisted three, the new one (id 3) first.
C12_Witness ==
    /\ last.op = "add" /\ last.result = "Ok"
    /\ IsStore(last.prev) /\ Len(TasksOf(last.prev)) = 2
    /\ Len(TasksOf(file)) = 3
    /\ TasksOf(file)[1].id = 3 /\ TasksOf(file)[1].text = last.task.text
    /\ SubSeq(TasksOf(file), 2, 3) = TasksOf(last.prev)

(***************************************************************************)
(* C13  For every --due-date string of the form YYYY-MM-DD (four digits, a *)
(* dash, two digits, a dash, two digits), add succeeds, and the due date   *)
(* of the task it stored, loaded again from the file, has the year, month  *)
(* and day the string names.                                               *)
(***************************************************************************)
\* The add command was given a due date of the form YYYY-MM-DD, on a journal
\* that loads, and no I/O step failed.
AddWithYMD ==
    /\ last.op = "add" /\ last.fault = "none"
    /\ IsSome(last.cli.due_date) /\ StrictYMD(Unwrap(last.cli.due_date))
    /\ (IsStore(last.prev) \/ ~last.prev.exists \/ last.prev.content = <<>>)

\* The add succeeded and the task it put into the file is due on the day the
\* string names.
StoredDueDateIsInput ==
    LET str == Unwrap(last.cli.due_date)
        old == IF IsStore(last.prev) THEN TasksOf(last.prev) ELSE <<>>
        new == TasksOf(file)
    IN  /\ last.result = "Ok" /\ IsStore(file)
        /\ \E j \in DOMAIN new :
               /\ Without(new, j) = old
               /\ IsSome(new[j].due_date)
               /\ LET date == CivilFromDays(Unwrap(new[j].due_date).days)
                  IN  /\ date.y = NumVal(str, 1, 4)
                      /\ date.m = NumVal(str, 6, 2)
                      /\ date.d = NumVal(str, 9, 2)

C13_EveryYMDStringStored == AddWithYMD => StoredDueDateIsInput

\* The string names a day of the (proleptic Gregorian) calendar.
NamesCalendarDay(str) ==
    LET y == NumVal(str, 1, 4)
        m == NumVal(str, 6, 2)
        d == NumVal(str, 9, 2)
        leap == y % 400 = 0 \/ (y % 4 = 0 /\ y % 100 /= 0)
        len == CASE m \in {1, 3, 5, 7, 8, 10, 12} -> 31
                 [] m \in {4, 6, 9, 11} -> 30
                 [] m = 2 -> IF leap THEN 29 ELSE 28
                 [] OTHER -> 0
    IN  d >= 1 /\ d <= len

\* C13 as it holds: for every --due-date string of the form YYYY-MM-DD that
\* names a day of the calendar, add succeeds and the stored due date, loaded
\* again, has the year, month and day of the string; a string of that form
\* that names no day (2024-02-30, 2024-13-01) is rejected with InvalidInput
\* and the journal is left as it was.
C13_CalendarDatesStored ==
    AddWithYMD =>
        IF NamesCalendarDay(Unwrap(last.cli.due_date))
        THEN StoredDueDateIsInput
        ELSE last.result = "InvalidInput" /\ file = last.prev

\* 0000-01-01, the earliest date of the form, was stored after another task.
C13_Witness ==
    /\ AddWithYMD /\ last.result = "Ok"
    /\ last.cli.due_date = Some(YMD(<<"0", "0", "0", "0">>, <<"0", "1">>, <<"0", "1">>))
    /\ Len(TasksOf(file)) = 2
    /\ CivilFromDays(Unwrap(TasksOf(file)[2].due_date).days) = [y |-> 0, m |-> 1, d |-> 1]

(***************************************************************************)
(* C14  Round trip: the collection add serialized into the journal, loaded *)
(* back, is the collection it serialized: as many tasks, in the same       *)
(* order, each equal field for field (id, text, created_at, due_date,      *)
(* priority, category).  The collection add serializes is the tasks it     *)
(* loaded and the task it was handed, created_at = now included, with the  *)
(* id it assigned.                                                         *)
(***************************************************************************)
C14_RoundTripFieldForField ==
    (last.op = "add" /\ last.result = "Ok"
       /\ (IsStore(last.prev) \/ ~last.prev.exists \/ last.prev.content = <<>>)) =>
        LET old == IF IsStore(last.prev) THEN TasksOf(last.prev) ELSE <<>>
            new == TasksOf(file)
        IN  /\ IsStore(file)
            /\ \E j \in DOMAIN new :
                   /\ Without(new, j) = old
                   /\ new[j] = [last.task EXCEPT !.id = Len(old) + 1]

(***************************************************************************)
(* C15  Ids are not reused after deletion: once done has removed a task    *)
(* with id i, no later add gives id i to a new task.  The formula is the   *)
(* case of the add that comes straight after the done.                     *)
(***************************************************************************)
\* The ids of the tasks that f holds and g lacks, g being f less one task.
IdsGone(f, g) ==
    {TasksOf(f)[j].id : j \in {i \in DOMAIN TasksOf(f) :
                                  Without(TasksOf(f), i) = TasksOf(g)}}

C15_IdsNotReused ==
    [][(/\ last.op = "done" /\ last.result = "Ok"
        /\ last'.op = "add" /\ last'.result = "Ok")
         => IdsGone(file', file) \cap IdsGone(last.prev, file) = {}]_vars

(***************************************************************************)
(* C16  Every persisted task has a non-empty text: for every text given to *)
(* the add command, the add is rejected or the text stored is not the      *)
(* empty string.                                                           *)
(***************************************************************************)
C16_TextNonEmpty ==
    IsStore(file) =>
        \A i \in DOMAIN TasksOf(file) : TasksOf(file)[i].text /= <<>>

(***************************************************************************)
(* C17  Ties in rank are broken by stable order.  After an add, the tasks  *)
(* of each rank that were in the file before are in the relative order     *)
(* they had, the new task comes after every one of them that has its rank  *)
(* and before every task of a larger rank.  A list, ascending or           *)
(* descending, shows the tasks of each rank in the relative order they     *)
(* have in the file.                                                       *)
(***************************************************************************)
\* The tasks of s that have rank r, in the order of s.
OfRank(s, r) == SelectSeq(s, LAMBDA t : Rank(t) = r)

C17_TiesKeepStableOrder ==
    /\ (last.op = "add" /\ last.result = "Ok") =>
           LET old == IF IsStore(last.prev) THEN TasksOf(last.prev) ELSE <<>>
               new == TasksOf(file)
           IN  \E j \in DOMAIN new :
                  /\ new[j].id = Len(old) + 1 /\ new[j].text = last.task.text
                  /\ \A r \in 1..4 : OfRank(Without(new, j), r) = OfRank(old, r)
                  /\ \A i \in DOMAIN new \ {j} :
                         /\ Rank(new[i]) = Rank(new[j]) => i < j
                         /\ Rank(new[i]) > Rank(new[j]) => i > j
    /\ (last.op = "list" /\ last.result = "Ok") =>
           LET Wanted(t) == last.category = None \/ t.category = last.category
               old   == SelectSeq(TasksOf(last.prev), Wanted)
               shown == [i \in DOMAIN last.out.rows |-> last.out.rows[i].task]
           IN  \A r \in 1..4 : OfRank(shown, r) = OfRank(old, r)

\* An add put the new task behind the task of its rank and in front of the
\* task of a larger rank.
C17_Witness ==
    /\ last.op = "add" /\ last.result = "Ok"
    /\ Len(TasksOf(last.prev)) = 2 /\ Len(TasksOf(file)) = 3
    /\ Rank(TasksOf(file)[1]) = 1 /\ Rank(TasksOf(file)[2]) = 1
    /\ TasksOf(file)[1].id = 1 /\ TasksOf(file)[2].id = 3
    /\ Rank(TasksOf(file)[3]) = 4

(***************************************************************************)
(* C18  add and done never alter or lose other tasks: after a successful   *)
(* add every task that was in the file is still there with every field     *)
(* (id, text, created_at, due_date, priority, category) as it was, and     *)
(* after a successful done k so is every task but the one at position k;   *)
(* nothing else is in the file but the task added.                         *)
(***************************************************************************)
\* s and t hold the same tasks the same number of times.
SameTasks(s, t) ==
    \A x \in Range(s) \cup Range(t) : Count(s, x) = Count(t, x)

C18_OtherTasksUntouched ==
    /\ (last.op = "add" /\ last.result = "Ok" /\ IsStore(last.prev)) =>
           /\ IsStore(file)
           /\ \E j \in DOMAIN TasksOf(file) :
                  SameTasks(Without(TasksOf(file), j), TasksOf(last.prev))
    /\ (last.op = "done" /\ last.result = "Ok") =>
           /\ IsStore(file)
           /\ SameTasks(TasksOf(file), Without(TasksOf(last.prev), last.pos))

\* An add went in front of two tasks with ids 1 and 2, which are as they were.
C18_Witness ==
    /\ last.op = "add" /\ last.result = "Ok"
    /\ IsStore(last.prev) /\ Len(TasksOf(last.prev)) = 2
    /\ TasksOf(last.prev)[1].id = 1 /\ TasksOf(last.prev)[2].id = 2
    /\ SubSeq(TasksOf(file), 2, 3) = TasksOf(last.prev)

(***************************************************************************)
(* C19  The priority prompt of the add command returns at the first line   *)
(* typed that is low, medium or high once trimmed and lower-cased, and     *)
(* returns that lower-cased word; every line before it was none of the     *)
(* three.  So in a store built from a missing or empty journal by the add  *)
(* and done commands every task has the priority "low", "medium" or        *)
(* "high", and none has rank 4.                                            *)
(***************************************************************************)
\* line is the word p in any mix of upper and lower case, with nothing but
\* white space around it.
IsPriorityLine(line, p) ==
    \E a \in 0..Len(line) :
        /\ a + Len(p) <= Len(line)
        /\ \A i \in DOMAIN line :
               IF i > a /\ i <= a + Len(p)
               THEN LowerChar(line[i]) = p[i - a]
               ELSE line[i] \in {" ", "\t", "\r", "\n"}

C19_PromptedPriorityIsValid ==
    /\ (last.op = "add" /\ last.result /= "InvalidInput") =>
           \E k \in DOMAIN last.cli.prio_lines :
               \E p \in {S_low, S_medium, S_high} :
                   /\ IsPriorityLine(last.cli.prio_lines[k], p)
                   /\ last.task.priority = Some(p)
                   /\ \A i \in 1..(k - 1) :
                          \A q \in {S_low, S_medium, S_high} :
                              ~IsPriorityLine(last.cli.prio_lines[i], q)
    /\ IsStore(file) =>
           \A i \in DOMAIN TasksOf(file) :
               /\ TasksOf(file)[i].priority \in
                      {Some(S_low), Some(S_medium), Some(S_high)}
               /\ Rank(TasksOf(file)[i]) /= 4

\* The prompt turned down three lines and took "LoW" as low.
C19_Witness ==
    /\ last.op = "add" /\ last.result = "Ok"
    /\ Len(last.cli.prio_lines) = 4
    /\ last.cli.prio_lines[4] = <<"L", "o", "W">>
    /\ \E i \in DOMAIN TasksOf(file) :
           /\ TasksOf(file)[i].priority = Some(S_low)
           /\ TasksOf(file)[i].id = Len(TasksOf(last.prev)) + 1

====
